---- MODULE Spec2Model ----
(***************************************************************************)
(* Model of the two launcher scripts of orev2-cli, claim.py and            *)
(* startminer.py.  Each script is a straight line of module-level          *)
(* statements: read sys.argv, load_dotenv(), os.getenv, print, build the   *)
(* list `command`, subprocess.run(command).  The model follows one         *)
(* invocation statement by statement, together with the child process and  *)
(* the exit status of the Python interpreter.                              *)
(*                                                                         *)
(* Python values that can be either a str or None are records              *)
(* [t |-> "str", v |-> s] and [t |-> "NoneType", v |-> ""].                *)
(***************************************************************************)
EXTENDS Integers, Sequences, FiniteSets, TLC

VARIABLES
    script,         \* which file is run: "claim" or "startminer"
    sys_argv,       \* sys.argv, element 0 (TLA+ index 1) is the script name
    os_environ,     \* os.environ restricted to ALCHEMY and MAINNET
    dotenv_file,    \* the entries of the local .env file
    exeFound,       \* whether "cargo" can be executed on this host
    pc,             \* the statement the interpreter is at
    i,              \* worker index, sys.argv[1]
    cores,          \* concurrency, sys.argv[2] (startminer.py only)
    RPI,            \* os.getenv("ALCHEMY")
    MAINNET_RPI,    \* os.getenv("MAINNET") (claim.py rebinds MAINNET to it)
    stdout,         \* the lines printed so far
    command,        \* the list given to subprocess.run
    child,          \* "not_started", "running" or "exited"
    child_argv,     \* the argument vector the child was started with
    returncode,     \* exit status of the child, -1 while it has none
    run_calls,      \* number of calls of subprocess.run
    spawns,         \* number of child processes started
    exception,      \* the uncaught exception, "none" if there is none
    exit_status     \* exit status of the launcher, -1 while it runs

vars == <<script, sys_argv, os_environ, dotenv_file, exeFound, pc, i, cores,
          RPI, MAINNET_RPI, stdout, command, child, child_argv, returncode,
          run_calls, spawns, exception, exit_status>>

----------------------------------------------------------------------------
(* Bounds of the model *)

MaxArgs == 3
MaxReturnCode == 2

(* Input domains *)

ArgStrings == {"3", "03", "4"}
EnvStrings == {"", "https://m.example", "https://a.example"}
DotenvStrings == {"https://d.example"}

----------------------------------------------------------------------------
(* Python values *)

None == [t |-> "NoneType", v |-> ""]
PyStr(s) == [t |-> "str", v |-> s]
Unbound == [t |-> "unbound", v |-> ""]

key == "ALCHEMY"
mainnet == "MAINNET"
EnvNames == {key, mainnet}

Scripts == {"claim", "startminer"}

RECURSIVE SeqsUpTo(_, _)
SeqsUpTo(S, n) ==
    IF n = 0 THEN {<<>>}
    ELSE LET shorter == SeqsUpTo(S, n - 1)
         IN  shorter \cup {Append(s, x) : s \in shorter, x \in S}

Digits == <<"0", "1", "2", "3", "4", "5", "6", "7", "8", "9">>

\* str(n) for a non-negative int
RECURSIVE str(_)
str(n) ==
    IF n < 10 THEN Digits[n + 1]
    ELSE str(n \div 10) \o Digits[(n % 10) + 1]

\* what print(x) writes for a str or None
PrintLine(x) == IF x = None THEN "None" ELSE x.v

Range(s) == {s[k] : k \in DOMAIN s}

----------------------------------------------------------------------------
(* Program constants *)

ClaimPriorityFee == 500000
MinePriorityFee == 2000
BufferTime == 2

CargoPrefix == <<PyStr("cargo"), PyStr("run"), PyStr("--release")>>

\* variant: the worker index goes through int() before it is formatted
KeypairPathInt(idx) ==
    "/root/orev2_setup/ids/id" \o (IF idx = "03" THEN "3" ELSE idx) \o ".json"

\* f"/root/orev2_setup/ids/id{i}.json"
KeypairPath(idx) == "/root/orev2_setup/ids/id" \o idx \o ".json"

\* variant: a flag whose value is None is left out
ClaimCommandDropNone(primary, secondary, idx) ==
    CargoPrefix \o <<PyStr("claim")>> \o
    (IF primary = None THEN <<>> ELSE <<PyStr("--rpc"), primary>>) \o
    (IF secondary = None THEN <<>> ELSE <<PyStr("--rpc2"), secondary>>) \o
    << PyStr("--keypair"), PyStr("/root/orev2_setup/ids/id" \o idx \o ".json"),
       PyStr("--priority-fee"), PyStr("500000") >>

\* claim.py, lines 17-25
ClaimCommand(primary, secondary, idx) ==
    CargoPrefix \o
    << PyStr("claim"),
       PyStr("--rpc"), primary,
       PyStr("--rpc2"), secondary,
       PyStr("--keypair"), PyStr(KeypairPath(idx)),
       PyStr("--priority-fee"), PyStr(str(ClaimPriorityFee)) >>

\* variant: the two endpoints are swapped between --rpc and --rpc2
MineCommandSwapped(primary, secondary, idx, n) ==
    CargoPrefix \o
    << PyStr("mine"),
       PyStr("--rpc"), secondary,
       PyStr("--rpc2"), primary,
       PyStr("--keypair"), PyStr("/root/orev2_setup/ids/id" \o idx \o ".json"),
       PyStr("--cores"), PyStr(n),
       PyStr("--priority-fee"), PyStr("2000"),
       PyStr("--buffer-time"), PyStr("2") >>

\* variant: the buffer time is left out of the mining command
MineCommandNoBuffer(primary, secondary, idx, n) ==
    CargoPrefix \o
    << PyStr("mine"),
       PyStr("--rpc"), primary,
       PyStr("--rpc2"), secondary,
       PyStr("--keypair"), PyStr("/root/orev2_setup/ids/id" \o idx \o ".json"),
       PyStr("--cores"), PyStr(n),
       PyStr("--priority-fee"), PyStr("2000") >>

\* startminer.py, lines 17-27
MineCommand(primary, secondary, idx, n) ==
    CargoPrefix \o
    << PyStr("mine"),
       PyStr("--rpc"), primary,
       PyStr("--rpc2"), secondary,
       PyStr("--keypair"), PyStr(KeypairPath(idx)),
       PyStr("--cores"), PyStr(n),
       PyStr("--priority-fee"), PyStr(str(MinePriorityFee)),
       PyStr("--buffer-time"), PyStr(str(BufferTime)) >>

\* variant: a missing argument reads as a default instead of raising
HasArgDefaulted(argv, k) == TRUE

\* sys.argv[k] is defined (no IndexError)
HasArg(argv, k) == k + 1 <= Len(argv)

\* sys.argv[k]
Arg(argv, k) == IF k + 1 \in DOMAIN argv THEN argv[k + 1] ELSE ""

\* load_dotenv(): a variable of the file is set unless the environment has it
LoadedEnv(env, file) ==
    [n \in EnvNames |-> IF env[n] = None THEN file[n] ELSE env[n]]

\* os.getenv(name)
getenv(env, name) == env[name]

\* the lines the script prints before it builds the command
Printed(s, primary, secondary) ==
    IF s = "claim" THEN <<PrintLine(primary), PrintLine(secondary)>>
    ELSE <<PrintLine(secondary)>>

\* every element of the argument list is a str
AllStr(cmd) == \A k \in DOMAIN cmd : cmd[k].t = "str"

\* variant: the exception is swallowed and the script ends normally
ExitStatusSwallowed(exc) == 0

\* exit status of the interpreter when the script ends
ExitStatus(exc) == IF exc = "none" THEN 0 ELSE 1

\* variant: the wait gives up on a child that is still running
WaitOverTimeout(c) == c \in {"running", "exited"}

\* subprocess.run returns once the child has exited
WaitOver(c) == c = "exited"

----------------------------------------------------------------------------
Init ==
    /\ script \in Scripts
    /\ \E args \in SeqsUpTo(ArgStrings, MaxArgs) :
           sys_argv = <<script \o ".py">> \o args
    /\ os_environ \in [EnvNames -> {None} \cup {PyStr(s) : s \in EnvStrings}]
    /\ dotenv_file \in [EnvNames -> {None} \cup {PyStr(s) : s \in DotenvStrings}]
    /\ exeFound \in BOOLEAN
    /\ pc = "argv1"
    /\ i = ""
    /\ cores = ""
    /\ RPI = Unbound
    /\ MAINNET_RPI = Unbound
    /\ stdout = <<>>
    /\ command = <<>>
    /\ child = "not_started"
    /\ child_argv = <<>>
    /\ returncode = -1
    /\ run_calls = 0
    /\ spawns = 0
    /\ exception = "none"
    /\ exit_status = -1

inputs == <<script, sys_argv, dotenv_file, exeFound>>
childVars == <<child, child_argv, returncode, spawns>>

\* an uncaught exception ends the interpreter
Raise(exc) ==
    /\ pc' = "done"
    /\ exception' = exc
    /\ exit_status' = ExitStatus(exc)

\* i = sys.argv[1]
ReadWorkerIndex ==
    /\ pc = "argv1"
    /\ IF HasArg(sys_argv, 1)
       THEN /\ i' = Arg(sys_argv, 1)
            /\ pc' = IF script = "startminer" THEN "argv2" ELSE "load_dotenv"
            /\ UNCHANGED <<exception, exit_status>>
       ELSE /\ Raise("IndexError")
            /\ UNCHANGED i
    /\ UNCHANGED <<inputs, os_environ, cores, RPI, MAINNET_RPI, stdout, command,
                   childVars, run_calls>>

\* cores = sys.argv[2]    (startminer.py)
ReadCores ==
    /\ pc = "argv2"
    /\ IF HasArg(sys_argv, 2)
       THEN /\ cores' = Arg(sys_argv, 2)
            /\ pc' = "load_dotenv"
            /\ UNCHANGED <<exception, exit_status>>
       ELSE /\ Raise("IndexError")
            /\ UNCHANGED cores
    /\ UNCHANGED <<inputs, os_environ, i, RPI, MAINNET_RPI, stdout, command,
                   childVars, run_calls>>

\* load_dotenv()
LoadDotenv ==
    /\ pc = "load_dotenv"
    /\ os_environ' = LoadedEnv(os_environ, dotenv_file)
    /\ pc' = "getenv"
    /\ UNCHANGED <<inputs, i, cores, RPI, MAINNET_RPI, stdout, command,
                   childVars, run_calls, exception, exit_status>>

\* RPI = os.getenv(key); MAINNET = os.getenv(MAINNET)
GetEnv ==
    /\ pc = "getenv"
    /\ RPI' = getenv(os_environ, key)
    /\ MAINNET_RPI' = getenv(os_environ, mainnet)
    /\ pc' = "print"
    /\ UNCHANGED <<inputs, os_environ, i, cores, stdout, command, childVars,
                   run_calls, exception, exit_status>>

\* print(MAINNET); print(RPI)   /   print(RPI)
PrintRpc ==
    /\ pc = "print"
    /\ stdout' = stdout \o Printed(script, MAINNET_RPI, RPI)
    /\ pc' = "command"
    /\ UNCHANGED <<inputs, os_environ, i, cores, RPI, MAINNET_RPI, command,
                   childVars, run_calls, exception, exit_status>>

\* command = [...]
BuildCommand ==
    /\ pc = "command"
    /\ command' = IF script = "claim"
                  THEN ClaimCommand(MAINNET_RPI, RPI, i)
                  ELSE MineCommand(MAINNET_RPI, RPI, i, cores)
    /\ pc' = "run"
    /\ UNCHANGED <<inputs, os_environ, i, cores, RPI, MAINNET_RPI, stdout,
                   childVars, run_calls, exception, exit_status>>

\* subprocess.run(command): Popen starts the child, or raises
RunStart ==
    /\ pc = "run"
    /\ run_calls' = run_calls + 1
    /\ IF ~AllStr(command)
       THEN /\ Raise("TypeError")
            /\ UNCHANGED childVars
       ELSE IF ~exeFound
       THEN /\ Raise("FileNotFoundError")
            /\ UNCHANGED childVars
       ELSE /\ child' = "running"
            /\ child_argv' = [k \in DOMAIN command |-> command[k].v]
            /\ spawns' = spawns + 1
            /\ pc' = "wait"
            /\ UNCHANGED <<returncode, exception, exit_status>>
    /\ UNCHANGED <<inputs, os_environ, i, cores, RPI, MAINNET_RPI, stdout,
                   command>>

\* the external process ends, with any status
ChildExit ==
    /\ child = "running"
    /\ \E c \in 0..MaxReturnCode : returncode' = c
    /\ child' = "exited"
    /\ UNCHANGED <<inputs, os_environ, pc, i, cores, RPI, MAINNET_RPI, stdout,
                   command, child_argv, spawns, run_calls, exception,
                   exit_status>>

\* subprocess.run returns a CompletedProcess that is dropped; the script ends
RunReturn ==
    /\ pc = "wait"
    /\ WaitOver(child)
    /\ pc' = "done"
    /\ exit_status' = ExitStatus(exception)
    /\ UNCHANGED <<inputs, os_environ, i, cores, RPI, MAINNET_RPI, stdout,
                   command, childVars, run_calls, exception>>

LauncherStep ==
    \/ ReadWorkerIndex
    \/ ReadCores
    \/ LoadDotenv
    \/ GetEnv
    \/ PrintRpc
    \/ BuildCommand
    \/ RunStart
    \/ RunReturn

Next ==
    \/ LauncherStep
    \/ ChildExit

Spec == Init /\ [][Next]_vars

\* the interpreter always takes its next step; the child need never exit
FairSpec == Spec /\ WF_vars(LauncherStep)

----------------------------------------------------------------------------
(* Properties *)

Positional == Len(sys_argv) - 1
Started == spawns > 0
Built == command # <<>>
ArgvTail(argv) == SubSeq(argv, Len(CargoPrefix) + 1, Len(argv))
FlagAt(cmd, flag) == {k \in DOMAIN cmd : cmd[k] = PyStr(flag)}

\* the keypair file of each worker index of the input domain, written out
ExpectedKeypair(w) ==
    CASE w = "3"  -> "/root/orev2_setup/ids/id3.json"
      [] w = "03" -> "/root/orev2_setup/ids/id03.json"
      [] w = "4"  -> "/root/orev2_setup/ids/id4.json"

\* C1: when the child was started and has exited with status c, the launcher
\* ends with exit status c.
C1_ExitCodePropagated ==
    (pc = "done" /\ Started) => exit_status = returncode

\* C2: with MAINNET unset the launcher raises no error of its own and still
\* starts the external process with the argv it built.
C2_UnsetMainnetStillStarts ==
    (pc = "done" /\ MAINNET_RPI = None) => (exception = "none" /\ spawns = 1)

\* C3: when the executable is not found the launcher ends with a non-zero
\* exit status after exactly one start attempt, and no child was started.
C3_NotFoundFails ==
    (exception = "FileNotFoundError") =>
        /\ pc = "done"
        /\ exit_status # 0 /\ exit_status # -1
        /\ run_calls = 1
        /\ spawns = 0 /\ child = "not_started"

C3_Witness ==
    /\ exception = "FileNotFoundError"
    /\ pc = "done"
    /\ ~exeFound

\* C4: the child of startminer.py gets, after the executable prefix, exactly
\* mine --rpc <MAINNET> --rpc2 <ALCHEMY> --keypair <path of w> --cores <c>
\* --priority-fee 2000 --buffer-time 2.
C4_MineArgv ==
    (script = "startminer" /\ Started) =>
        ArgvTail(child_argv) =
            << "mine",
               "--rpc", os_environ[mainnet].v,
               "--rpc2", os_environ[key].v,
               "--keypair", ExpectedKeypair(sys_argv[2]),
               "--cores", sys_argv[3],
               "--priority-fee", "2000",
               "--buffer-time", "2" >>

C4_Witness ==
    /\ script = "startminer"
    /\ Started
    /\ os_environ[mainnet] = PyStr("https://m.example")
    /\ os_environ[key] = PyStr("https://a.example")
    /\ sys_argv[2] = "03"
    /\ sys_argv[3] = "4"

\* C5: the command of claim.py is always claim --rpc <MAINNET> --rpc2
\* <ALCHEMY> --keypair <path> --priority-fee 500000, whether or not the two
\* environment variables resolve.
C5_ClaimArgv ==
    (script = "claim" /\ Built) =>
        ArgvTail(command) =
            << PyStr("claim"),
               PyStr("--rpc"), os_environ[mainnet],
               PyStr("--rpc2"), os_environ[key],
               PyStr("--keypair"), PyStr(ExpectedKeypair(sys_argv[2])),
               PyStr("--priority-fee"), PyStr("500000") >>

C5_Witness ==
    /\ script = "claim"
    /\ Built
    /\ os_environ[mainnet] = None
    /\ os_environ[key] = None

\* C6: in both scripts the value after --keypair is the fixed base, the
\* first positional argument verbatim, and .json; nothing else enters it.
C6_KeypairVerbatim ==
    Built =>
        /\ Cardinality(FlagAt(command, "--keypair")) = 1
        /\ \A k \in FlagAt(command, "--keypair") :
               /\ k < Len(command)
               /\ command[k + 1] = PyStr(ExpectedKeypair(sys_argv[2]))

C6_Witness ==
    /\ Built
    /\ sys_argv[2] = "03"
    /\ command[10] = PyStr("/root/orev2_setup/ids/id03.json")

\* C7 as stated: an invocation with fewer than two positional arguments
\* never starts the external process.
C7_TwoArgsRequired ==
    Positional < 2 => ~Started

RequiredArgs(s) == IF s = "startminer" THEN 2 ELSE 1

\* C7 amended: startminer.py needs both positional arguments and claim.py
\* only the worker index; with fewer than that the script ends in an
\* IndexError and never calls subprocess.run.
C7_ReadArgsRequired ==
    Positional < RequiredArgs(script) =>
        /\ ~Started /\ run_calls = 0
        /\ pc = "done" => exception = "IndexError"
        /\ pc \in {"argv1", "argv2", "done"}

C7_Witness ==
    /\ script = "startminer"
    /\ Positional = 1
    /\ pc = "done"
    /\ exception = "IndexError"

\* C8: whenever the child is started, every RPC value of its argv (the one
\* after --rpc and the one after --rpc2) has been printed.
C8_RpcValuesPrinted ==
    Started =>
        \A k \in DOMAIN child_argv :
            child_argv[k] \in {"--rpc", "--rpc2"} =>
                child_argv[k + 1] \in Range(stdout)

ChildMoves ==
    \/ child' = child
    \/ child = "not_started" /\ child' = "running"
    \/ child = "running" /\ child' = "exited"

C10_BufferTime ==
    Built =>
        /\ (FlagAt(command, "--buffer-time") # {}) <=> (script = "startminer")
        /\ \A k \in FlagAt(command, "--buffer-time") :
               k < Len(command) /\ command[k + 1] = PyStr("2")

C10_Witness ==
    /\ script = "startminer"
    /\ Built
    /\ command[Len(command) - 1] = PyStr("--buffer-time")

====
